---- MODULE Spec2Model ----
(***************************************************************************)
(* Model of the parent-finality provider FinalityWithNull                  *)
(* (fendermint/vm/topdown/src/finality/null.rs).                           *)
(*                                                                         *)
(* The provider holds two transactional variables, the cache of parent     *)
(* observations and the last committed finality.  Every public method is   *)
(* one STM transaction, modelled as one atomic action.  Option<T> values   *)
(* are sequences of length at most one: <<>> is None, <<x>> is Some(x).    *)
(***************************************************************************)
EXTENDS Integers, Sequences, FiniteSets, TLC

\* ------------------------------------------------------------------ bounds

\* Parent heights range over 0..MaxHeight.
MaxHeight == 4
\* config.max_proposal_range ranges over 1..MaxProposalRange.
MaxProposalRange == 2
\* config.proposal_delay ranges over 0..MaxProposalDelay.
MaxProposalDelay == 1
\* A configured max_cache_blocks, used only to state the bounded-cache claim.
MaxCacheBlocks == 2
\* With concurrent tasks, the syncers stop at this parent height.
MaxSyncHeight == 2

Heights == 0..MaxHeight

\* Block hashes (opaque byte strings in the code).
Hashes == {"a", "b"}

\* ----------------------------------------------------------------- options

None == <<>>

Some(x) == <<x>>

IsSome(o) == o # <<>>

Unwrap(o) == o[1]

\* ---------------------------------------------------------------- payloads

\* ParentViewPayload = (BlockHash, Vec<StakingChangeRequest>, Vec<IpcEnvelope>);
\* a validator change is its configuration_number, a message its nonce.
Payload(b, vc, msgs) == [block_hash |-> b, validator_changes |-> vc, top_down_msgs |-> msgs]

\* The parent chain's block at a height: its hash and side effects are fixed by
\* the chain, and the syncer reports either this block or a null round.
ParentBlock(h) ==
    IF h % 2 = 0 THEN Payload("a", <<>>, <<>>)
    ELSE Payload("b", <<h>>, <<h, h + 1>>)

\* A block whose cross-messages are out of nonce order.
UnorderedMsgsBlock(h) == Payload("a", <<>>, <<h + 1, h>>)

\* A block whose validator changes skip a configuration number.
UnorderedChangesBlock(h) == Payload("b", <<h, h + 2>>, <<>>)

\* What the syncer may pass as maybe_payload at a height; None is a null round.
MaybePayloads(h) ==
    {None, Some(ParentBlock(h)), Some(UnorderedMsgsBlock(h)), Some(UnorderedChangesBlock(h))}

\* Of these, the payloads whose side effects are in order.
InOrderAt(h) == {None, Some(ParentBlock(h))}

\* IPCParentFinality { height, block_hash }
Finality(h, b) == [height |-> h, block_hash |-> b]

Finalities == {Finality(h, b) : h \in Heights, b \in Hashes}

\* Config: the two options the provider reads.  A run is configured either with
\* the smallest range and no delay, or with the largest range and delay.
Configs ==
    { [max_proposal_range |-> 1, proposal_delay |-> 0],
      [max_proposal_range |-> MaxProposalRange, proposal_delay |-> MaxProposalDelay] }

\* ------------------------------------------------------------------- state

VARIABLES
    cached_data,              \* SequentialKeyCache<BlockHeight, Option<ParentViewPayload>>
    last_committed_finality,  \* Option<IPCParentFinality>
    config,                   \* Config
    ret,                      \* the last call: its name, arguments and result
    peer,                     \* a second provider, fed the same operations
    tx,                       \* the transaction each task is running
    events,                   \* what the tracing subscriber has received
    serial,                   \* the two variables, had every transaction run alone
    executed                  \* the views ingested and the side effects executed

vars ==
    <<cached_data, last_committed_finality, config, ret, peer, tx, events, serial, executed>>

\* What a call on a provider used alone, from one task and without a tracing
\* subscriber, leaves as it is.
rest == <<config, peer, tx, events, serial, executed>>

\* No second provider.
NoPeer == <<>>

\* No task is inside a transaction.
NoTransactions == <<>>

\* The tracing subscriber has received nothing: a bag of events.
NoEvents == <<>>

\* The variables are not shadowed.
NoShadow == <<>>

\* What the provider's caller executes is not followed.
NotFollowed == <<>>

\* A provider used alone.
Alone ==
    /\ peer = NoPeer
    /\ tx = NoTransactions
    /\ events = NoEvents
    /\ serial = NoShadow
    /\ executed = NotFollowed

\* ---------------------------------------------------- SequentialKeyCache

\* The cache is a function from its keys to Option<ParentViewPayload>.
Max(S) == CHOOSE x \in S : \A y \in S : y <= x

Min(S) == CHOOSE x \in S : \A y \in S : x <= y

\* SequentialKeyCache::sequential()
sequential == <<>>

size(cache) == Cardinality(DOMAIN cache)

upper_bound(cache) == IF DOMAIN cache = {} THEN None ELSE Some(Max(DOMAIN cache))

lower_bound(cache) == IF DOMAIN cache = {} THEN None ELSE Some(Min(DOMAIN cache))

\* get_value: Some(v) for a cached key (v itself None for a null round), else None.
get_value(cache, k) == IF k \in DOMAIN cache THEN Some(cache[k]) ELSE None

\* append(k, v): refused unless the cache is empty or k = upper_bound + 1.
\* Returns the (possibly unchanged) cache and the error, if any.
append(cache, k, v) ==
    IF IsSome(upper_bound(cache)) /\ k # Unwrap(upper_bound(cache)) + 1
    THEN [cache |-> cache, err |-> Some("NonSequential")]
    ELSE [cache |-> [h \in DOMAIN cache \cup {k} |-> IF h = k THEN v ELSE cache[h]],
          err |-> None]

\* remove_key_below(k): drops every entry with key < k.
remove_key_below(cache, k) == [h \in {x \in DOMAIN cache : x >= k} |-> cache[h]]

\* ensure_sequential(items, key): each key is its predecessor's plus one.
ensure_sequential(items) ==
    \A i \in 1..(Len(items) - 1) : items[i] + 1 = items[i + 1]

\* ---------------------------------------------------------- Config getters

max_proposal_range(cfg) == cfg.max_proposal_range

proposal_delay(cfg) == cfg.proposal_delay

\* ----------------------------------------------------------- u64 arithmetic

\* BlockHeight is u64.  The model's heights are far below 2^64, so the only
\* operation that can leave the range is the subtraction of the delay.  The
\* modulus is scaled down with the heights: as in the code, it exceeds every
\* height plus every range and delay, so lc + W never wraps here.
U64Modulus == MaxHeight + MaxProposalRange + MaxProposalDelay + 1

\* a - b in u64: with overflow checks the build panics on underflow, without
\* them the difference wraps.
u64_sub(a, b, overflow_checks) ==
    IF a >= b THEN [panic |-> FALSE, val |-> a - b]
    ELSE IF overflow_checks THEN [panic |-> TRUE, val |-> 0]
    ELSE [panic |-> FALSE, val |-> (a - b) + U64Modulus]

\* ------------------------------------------------------------ read helpers

\* get_at_height(height, f) with f = |v| v.0: the hash of a filled entry.
get_at_height(cache, height) ==
    LET v == get_value(cache, height)
    IN  IF IsSome(v) /\ IsSome(Unwrap(v)) THEN Some(Unwrap(Unwrap(v)).block_hash) ELSE None

\* handle_null_block(height, topdown_cross_msgs, Vec::new)
handle_null_block_msgs(cache, height) ==
    LET v == get_value(cache, height)
    IN  IF ~IsSome(v) THEN None
        ELSE IF IsSome(Unwrap(v)) THEN Some(Unwrap(Unwrap(v)).top_down_msgs)
        ELSE Some(<<>>)

\* handle_null_block(height, validator_changes, Vec::new)
handle_null_block_changes(cache, height) ==
    LET v == get_value(cache, height)
    IN  IF ~IsSome(v) THEN None
        ELSE IF IsSome(Unwrap(v)) THEN Some(Unwrap(Unwrap(v)).validator_changes)
        ELSE Some(<<>>)

\* The committed hash answers for every height up to the committed one.
block_hash_at_height_UpToCommitted(cache, lcf, height) ==
    IF IsSome(lcf) /\ Unwrap(lcf).height >= height
    THEN Some(Unwrap(lcf).block_hash)
    ELSE get_at_height(cache, height)

block_hash_at_height(cache, lcf, height) ==
    IF IsSome(lcf) /\ Unwrap(lcf).height = height
    THEN Some(Unwrap(lcf).block_hash)
    ELSE get_at_height(cache, height)

latest_height_in_cache(cache) == upper_bound(cache)

latest_height(cache, lcf) ==
    IF IsSome(latest_height_in_cache(cache)) THEN latest_height_in_cache(cache)
    ELSE IF IsSome(lcf) THEN Some(Unwrap(lcf).height)
    ELSE None

\* The loop of first_non_null_block: h runs from height down to lower.
RECURSIVE ScanDown(_, _, _)
ScanDown(cache, lower, h) ==
    IF h < lower THEN None
    ELSE IF get_value(cache, h) # None /\ IsSome(Unwrap(get_value(cache, h))) THEN Some(h)
    ELSE ScanDown(cache, lower, h - 1)

\* A scan that accepts any cached key, null rounds included.
first_non_null_block_AnyCached(cache, height) ==
    LET below == {h \in DOMAIN cache : h <= height}
    IN  IF below = {} THEN None ELSE Some(Max(below))

\* The scan stops one short of the height: lower_bound..height, exclusive.
first_non_null_block_Exclusive(cache, height) ==
    IF ~IsSome(lower_bound(cache)) THEN None
    ELSE ScanDown(cache, Unwrap(lower_bound(cache)), height - 1)

first_non_null_block(cache, height) ==
    IF ~IsSome(lower_bound(cache)) THEN None
    ELSE ScanDown(cache, Unwrap(lower_bound(cache)), height)

\* ---------------------------------------------------------------- proposer

\* propose_next_height.  kind is "some" (with the height), "none", or "panic"
\* (the unreachable!() of an unseeded provider, or the delay subtraction
\* underflowing in a build with overflow checks).
propose_next_height(cache, lcf, cfg, overflow_checks) ==
    IF ~IsSome(latest_height_in_cache(cache)) THEN [kind |-> "none", height |-> 0]
    ELSE IF ~IsSome(lcf) THEN [kind |-> "panic", height |-> 0]
    ELSE
    LET latest == Unwrap(latest_height_in_cache(cache))
        last_committed_height == Unwrap(lcf).height
        max_proposal_height == last_committed_height + max_proposal_range(cfg)
        candidate_height ==
            IF max_proposal_height < latest THEN max_proposal_height ELSE latest
        first_non_null == first_non_null_block(cache, candidate_height)
    IN  IF ~IsSome(first_non_null) THEN [kind |-> "none", height |-> 0]
        ELSE
        LET delayed == u64_sub(Unwrap(first_non_null), proposal_delay(cfg), overflow_checks)
        IN  IF delayed.panic THEN [kind |-> "panic", height |-> 0]
            ELSE
            LET maybe_proposal_height == first_non_null_block(cache, delayed.val)
            IN  IF ~IsSome(maybe_proposal_height) THEN [kind |-> "none", height |-> 0]
                ELSE IF last_committed_height = Unwrap(maybe_proposal_height)
                THEN [kind |-> "none", height |-> 0]
                ELSE [kind |-> "some", height |-> Unwrap(maybe_proposal_height)]

\* next_proposal: the proposed height with the hash block_hash_at_height gives
\* for it; the unwrap of a missing hash panics.
next_proposal(cache, lcf, cfg, overflow_checks) ==
    LET h == propose_next_height(cache, lcf, cfg, overflow_checks)
    IN  IF h.kind # "some" THEN [kind |-> h.kind, proposal |-> None]
        ELSE LET block_hash == block_hash_at_height(cache, lcf, h.height)
             IN  IF ~IsSome(block_hash) THEN [kind |-> "panic", proposal |-> None]
                 ELSE [kind |-> "some",
                       proposal |-> Some(Finality(h.height, Unwrap(block_hash)))]

\* ---------------------------------------------------------------- verifier

\* The committed height itself still passes: > in place of >=.
check_height_CommittedPasses(cache, lcf, height) ==
    IF ~IsSome(lcf) THEN FALSE
    ELSE IF Unwrap(lcf).height > height THEN FALSE
    ELSE IF IsSome(latest_height_in_cache(cache))
         THEN Unwrap(latest_height_in_cache(cache)) >= height
         ELSE FALSE

check_height(cache, lcf, height) ==
    IF ~IsSome(lcf) THEN FALSE
    ELSE IF Unwrap(lcf).height >= height THEN FALSE
    ELSE IF IsSome(latest_height_in_cache(cache))
         THEN Unwrap(latest_height_in_cache(cache)) >= height
         ELSE FALSE

check_block_hash(cache, lcf, proposal) ==
    LET block_hash == block_hash_at_height(cache, lcf, proposal.height)
    IN  IF IsSome(block_hash) THEN Unwrap(block_hash) = proposal.block_hash ELSE FALSE

check_proposal(cache, lcf, proposal) ==
    IF ~check_height(cache, lcf, proposal.height) THEN FALSE
    ELSE check_block_hash(cache, lcf, proposal)

\* ---------------------------------------------------------------- ingestor

\* A transaction's outcome: the values of the two variables it leaves behind
\* and its error.  abort(e) discards the transaction's writes.
Committed(cache, lcf) == [cache |-> cache, lcf |-> lcf, err |-> None]

Aborted(cache0, lcf0, e) == [cache |-> cache0, lcf |-> lcf0, err |-> Some(e)]

\* The append is refused with a CacheFull error once max_cache_blocks are held.
parent_block_filled_CacheFull(cache, lcf, height, payload) ==
    IF size(cache) >= MaxCacheBlocks THEN Aborted(cache, lcf, "CacheFull")
    ELSE LET r == append(cache, height, Some(payload))
         IN  IF IsSome(r.err) \/ ~ensure_sequential(payload.top_down_msgs)
                \/ ~ensure_sequential(payload.validator_changes)
             THEN Aborted(cache, lcf, "NonSequentialParentViewInsert")
             ELSE Committed(r.cache, lcf)

\* The error of a refused append is dropped instead of aborting.
parent_block_filled_NoAbort(cache, lcf, height, payload) ==
    Committed(append(cache, height, Some(payload)).cache, lcf)

\* The block is appended without looking at the order of its side effects.
parent_block_filled_Unchecked(cache, lcf, height, payload) ==
    LET r == append(cache, height, Some(payload))
    IN  IF IsSome(r.err)
        THEN Aborted(cache, lcf, "NonSequentialParentViewInsert")
        ELSE Committed(r.cache, lcf)

parent_block_filled(cache, lcf, height, payload) ==
    IF payload.top_down_msgs # <<>> /\ ~ensure_sequential(payload.top_down_msgs)
    THEN Aborted(cache, lcf, "NonSequentialParentViewInsert")
    ELSE IF payload.validator_changes # <<>> /\ ~ensure_sequential(payload.validator_changes)
    THEN Aborted(cache, lcf, "NonSequentialParentViewInsert")
    ELSE LET r == append(cache, height, Some(payload))
         IN  IF IsSome(r.err)
             THEN Aborted(cache, lcf, "NonSequentialParentViewInsert")
             ELSE Committed(r.cache, lcf)

\* A null round is acknowledged without being cached.
parent_null_round_Dropped(cache, lcf, height) == Committed(cache, lcf)

\* A null round is written at its key without going through append.
parent_null_round_Inserted(cache, lcf, height) ==
    Committed([h \in DOMAIN cache \cup {height} |->
                  IF h = height THEN None ELSE cache[h]], lcf)

parent_null_round(cache, lcf, height) ==
    LET r == append(cache, height, None)
    IN  IF IsSome(r.err)
        THEN Aborted(cache, lcf, "NonSequentialParentViewInsert")
        ELSE Committed(r.cache, lcf)

\* The view is written at its height whatever the cache's upper bound is.
new_parent_view_Overwrites(cache, lcf, height, maybe_payload) ==
    Committed([h \in DOMAIN cache \cup {height} |->
                  IF h = height THEN maybe_payload ELSE cache[h]], lcf)

new_parent_view(cache, lcf, height, maybe_payload) ==
    IF IsSome(maybe_payload)
    THEN parent_block_filled(cache, lcf, height, Unwrap(maybe_payload))
    ELSE parent_null_round(cache, lcf, height)

\* --------------------------------------------------------------- committer

\* The finality is forced and the cache is left as it is.
reset_KeepsCache(cache, lcf, finality) == Committed(cache, Some(finality))

\* reset: a fresh cache and the given finality.
reset(cache, lcf, finality) == Committed(sequential, Some(finality))

\* The finality is installed without pruning the cache.
set_new_finality_NoPrune(cache, lcf, finality) == Committed(cache, Some(finality))

\* The entry at the committed height is pruned with the ones below it.
set_new_finality_PrunesCommitted(cache, lcf, finality) ==
    Committed(remove_key_below(cache, finality.height + 1), Some(finality))

\* The cache is pruned below the previous finality's height, not the new one's.
set_new_finality_PrunesBelowPrevious(cache, lcf, finality) ==
    Committed(remove_key_below(cache, IF IsSome(lcf) THEN Unwrap(lcf).height ELSE 0),
              Some(finality))

\* set_new_finality: prune below the height, then install the finality.
set_new_finality(cache, lcf, finality) ==
    Committed(remove_key_below(cache, finality.height), Some(finality))

\* SealedTopdownProposal::new(height, hash, cross_msgs, validator_changes)
SealedTopdownProposal(h, b, msgs, vc) ==
    [height |-> h, block_hash |-> b, cross_msgs |-> msgs, validator_changes |-> vc]

\* SealedTopdownProposal::finality()
finality_of(sealed) == Finality(sealed.height, sealed.block_hash)

set_new_sealed_finality(cache, lcf, sealed_proposal) ==
    LET finality == finality_of(sealed_proposal)
    IN  Committed(remove_key_below(cache, finality.height), Some(finality))

\* ------------------------------------------------------ sealed proposals

\* SealedTopdownProposal::commitment(): a content identifier of the canonical
\* encoding of the two side-effect vectors.  The encoding keeps the vectors
\* apart and keeps their order; the identifier is taken to be free of
\* collisions.  Height and block hash are not part of it.
commitment(sealed) == <<sealed.cross_msgs, sealed.validator_changes>>

\* The loop of proposal_sealed_till_height, for h in last_committed..height:
\* a cached height extends the two vectors, a height not in the cache is
\* skipped.
RECURSIVE SideEffectsTill(_, _, _, _, _)
SideEffectsTill(cache, h, height, cros_msgs, vali_chns) ==
    IF h >= height THEN [cros_msgs |-> cros_msgs, vali_chns |-> vali_chns]
    ELSE LET m == handle_null_block_msgs(cache, h)
             c == handle_null_block_changes(cache, h)
         IN  SideEffectsTill(cache, h + 1, height,
                 IF IsSome(m) THEN cros_msgs \o Unwrap(m) ELSE cros_msgs,
                 IF IsSome(c) THEN vali_chns \o Unwrap(c) ELSE vali_chns)

\* The proposal is sealed without the side effects.
proposal_sealed_till_height_NoEffects(cache, lcf, height) ==
    IF ~IsSome(lcf) THEN [kind |-> "panic", proposal |-> None]
    ELSE IF ~IsSome(block_hash_at_height(cache, lcf, height))
    THEN [kind |-> "panic", proposal |-> None]
    ELSE [kind |-> "some",
          proposal |-> Some(SealedTopdownProposal(
                           height, Unwrap(block_hash_at_height(cache, lcf, height)),
                           <<>>, <<>>))]

\* proposal_sealed_till_height.  kind is "some", or "panic" when one of its two
\* unwraps meets None: no last committed finality, or no hash at the height.
proposal_sealed_till_height(cache, lcf, height) ==
    IF ~IsSome(lcf) THEN [kind |-> "panic", proposal |-> None]
    ELSE IF ~IsSome(block_hash_at_height(cache, lcf, height))
    THEN [kind |-> "panic", proposal |-> None]
    ELSE LET e == SideEffectsTill(cache, Unwrap(lcf).height, height, <<>>, <<>>)
         IN  [kind |-> "some",
              proposal |-> Some(SealedTopdownProposal(
                               height, Unwrap(block_hash_at_height(cache, lcf, height)),
                               e.cros_msgs, e.vali_chns))]

\* sealed_proposal_at_height: none unless the target height is cached and filled.
sealed_proposal_at_height(cache, lcf, target_height) ==
    IF ~IsSome(get_at_height(cache, target_height))
    THEN [kind |-> "none", proposal |-> None]
    ELSE proposal_sealed_till_height(cache, lcf, target_height)

\* check_sealed_proposal.  kind is "ok" with the boolean returned, or "panic"
\* when the rebuilt proposal's unwrap panics.
check_sealed_proposal(cache, lcf, proposal) ==
    IF ~check_height(cache, lcf, finality_of(proposal).height)
    THEN [kind |-> "ok", val |-> FALSE]
    ELSE LET check == proposal_sealed_till_height(cache, lcf, finality_of(proposal).height)
         IN  IF check.kind = "panic" THEN [kind |-> "panic", val |-> FALSE]
             ELSE [kind |-> "ok",
                   val |-> commitment(proposal) = commitment(Unwrap(check.proposal))]

\* ----------------------------------------------------------------- queries

\* Queries mistake a null round for a height that is not cached.
validator_changes_NullAsMissing(cache, height) ==
    IF IsSome(get_at_height(cache, height))
    THEN handle_null_block_changes(cache, height) ELSE None

\* validator_changes(height): atomically(|| handle_null_block(height, ..))
validator_changes(cache, height) == handle_null_block_changes(cache, height)

\* top_down_msgs(height)
top_down_msgs(cache, height) == handle_null_block_msgs(cache, height)

\* ----------------------------------------------------------------- actions

\* A transaction's outcome is bound through a singleton set, \E t \in {...}, so
\* that it is computed once per step.
Call(op, arg, res) == [op |-> op, arg |-> arg, res |-> res]

ErrorOf(t) == IF IsSome(t.err) THEN Unwrap(t.err) ELSE "ok"

\* FinalityWithNull::new: an empty cache and the finality loaded from storage,
\* if there is one.
Init ==
    /\ cached_data = sequential
    /\ last_committed_finality \in {None} \cup {Some(f) : f \in Finalities}
    /\ config \in Configs
    /\ ret = Call("new", <<>>, "ok")
    /\ Alone

\* The syncer's call, atomically_or_err(|| new_parent_view(height, payload)).
NewParentView(height, maybe_payload) ==
    \E t \in {new_parent_view(cached_data, last_committed_finality, height, maybe_payload)} :
        /\ cached_data' = t.cache
        /\ last_committed_finality' = t.lcf
        /\ ret' = Call("new_parent_view", <<height, maybe_payload>>, ErrorOf(t))
        /\ UNCHANGED rest

\* Consensus asks for a proposal.  The build decides what an underflow does.
NextProposal ==
    \E overflow_checks \in BOOLEAN :
        /\ ret' = Call("next_proposal", <<>>,
                       next_proposal(cached_data, last_committed_finality, config,
                                     overflow_checks))
        /\ UNCHANGED <<cached_data, last_committed_finality, rest>>

\* Consensus commits a finality; the caller passes the finality it read in the
\* same transaction as previous_finality, so the debug_assert holds.
SetNewFinality(finality) ==
    \E t \in {set_new_finality(cached_data, last_committed_finality, finality)} :
        /\ cached_data' = t.cache
        /\ last_committed_finality' = t.lcf
        /\ ret' = Call("set_new_finality", finality, ErrorOf(t))
        /\ UNCHANGED rest

\* The sealed proposals consensus may commit.
SealedInputs ==
    {SealedTopdownProposal(f.height, f.block_hash, <<>>, <<>>) : f \in Finalities}

SetNewSealedFinality(sealed_proposal) ==
    \E t \in {set_new_sealed_finality(cached_data, last_committed_finality, sealed_proposal)} :
        /\ cached_data' = t.cache
        /\ last_committed_finality' = t.lcf
        /\ ret' = Call("set_new_sealed_finality", sealed_proposal, ErrorOf(t))
        /\ UNCHANGED rest

Reset(finality) ==
    \E t \in {reset(cached_data, last_committed_finality, finality)} :
        /\ cached_data' = t.cache
        /\ last_committed_finality' = t.lcf
        /\ ret' = Call("reset", finality, ErrorOf(t))
        /\ UNCHANGED rest

Ingest == \E h \in Heights : \E mp \in MaybePayloads(h) : NewParentView(h, mp)

Commit == \E f \in Finalities : SetNewFinality(f)

CommitSealed == \E sp \in SealedInputs : SetNewSealedFinality(sp)

Restore == \E f \in Finalities : Reset(f)

Next ==
    \/ Ingest
    \/ NextProposal
    \/ Commit
    \/ CommitSealed
    \/ Restore

Spec == Init /\ [][Next]_vars

\* ------------------------------------------------- the proposer, driven

\* The provider as the node drives it: seeded at LiveSeed, the syncer appends
\* the height after latest_height(), and consensus commits what next_proposal
\* returns.
LiveSeed == Finality(0, "a")

LiveInit ==
    /\ cached_data = sequential
    /\ last_committed_finality = Some(LiveSeed)
    /\ config \in Configs
    /\ ret = Call("new", <<>>, "ok")
    /\ Alone

Sync ==
    LET h == Unwrap(latest_height(cached_data, last_committed_finality)) + 1
    IN  /\ h \in Heights
        /\ \E mp \in InOrderAt(h) : NewParentView(h, mp)

ProposeAndCommit ==
    \E overflow_checks \in BOOLEAN :
        \E r \in {next_proposal(cached_data, last_committed_finality, config,
                                overflow_checks)} :
            /\ r.kind = "some"
            /\ \E f \in {Unwrap(r.proposal)} : SetNewFinality(f)

LiveNext ==
    \/ Sync
    \/ ProposeAndCommit

\* The syncer polls for ever and consensus keeps producing blocks.
LiveSpec == LiveInit /\ [][LiveNext]_vars /\ WF_vars(Sync) /\ WF_vars(ProposeAndCommit)

\* ------------------------------------------- the verifier and the queries

\* The side effects of the parent blocks at the heights lo..hi-1 in ascending
\* order, as a peer that saw every one of them filled concatenates them.
RECURSIVE EffectsOfRange(_, _)
EffectsOfRange(lo, hi) ==
    IF lo >= hi THEN [cros_msgs |-> <<>>, vali_chns |-> <<>>]
    ELSE LET lower == EffectsOfRange(lo, hi - 1)
         IN  [cros_msgs |-> lower.cros_msgs \o ParentBlock(hi - 1).top_down_msgs,
              vali_chns |-> lower.vali_chns \o ParentBlock(hi - 1).validator_changes]

\* The same side effects taken in descending order of height.
RECURSIVE EffectsOfRangeReversed(_, _)
EffectsOfRangeReversed(lo, hi) ==
    IF lo >= hi THEN [cros_msgs |-> <<>>, vali_chns |-> <<>>]
    ELSE LET lower == EffectsOfRangeReversed(lo, hi - 1)
         IN  [cros_msgs |-> ParentBlock(hi - 1).top_down_msgs \o lower.cros_msgs,
              vali_chns |-> ParentBlock(hi - 1).validator_changes \o lower.vali_chns]

\* The side effects a peer's sealed proposal may carry: none, those of the
\* first blocks, those of all blocks, and those of all blocks out of order.
PeerEffects ==
    { EffectsOfRange(0, 0), EffectsOfRange(0, 2), EffectsOfRange(0, MaxHeight),
      EffectsOfRangeReversed(0, MaxHeight) }

\* The sealed proposals a peer may send for verification.
SealedProposals ==
    { SealedTopdownProposal(f.height, f.block_hash, e.cros_msgs, e.vali_chns) :
          f \in Finalities, e \in PeerEffects }

\* The provider as this suite drives it: the configuration of the tests.
ReadInit ==
    /\ cached_data = sequential
    /\ last_committed_finality \in {None} \cup {Some(f) : f \in Finalities}
    /\ config = [max_proposal_range |-> MaxProposalRange, proposal_delay |-> MaxProposalDelay]
    /\ ret = Call("new", <<>>, "ok")
    /\ Alone

\* atomically(|| provider.check_proposal(&proposal))
CheckProposal(proposal) ==
    /\ ret' = Call("check_proposal", proposal,
                   check_proposal(cached_data, last_committed_finality, proposal))
    /\ UNCHANGED <<cached_data, last_committed_finality, rest>>

\* atomically(|| provider.check_sealed_proposal(&proposal))
CheckSealedProposal(proposal) ==
    /\ ret' = Call("check_sealed_proposal", proposal,
                   check_sealed_proposal(cached_data, last_committed_finality, proposal))
    /\ UNCHANGED <<cached_data, last_committed_finality, rest>>

\* atomically(|| provider.sealed_proposal_at_height(target_height))
SealedProposalAtHeight(target_height) ==
    /\ ret' = Call("sealed_proposal_at_height", target_height,
                   sealed_proposal_at_height(cached_data, last_committed_finality,
                                             target_height))
    /\ UNCHANGED <<cached_data, last_committed_finality, rest>>

\* provider.validator_changes(height).await
ValidatorChanges(height) ==
    /\ ret' = Call("validator_changes", height, validator_changes(cached_data, height))
    /\ UNCHANGED <<cached_data, last_committed_finality, rest>>

\* provider.top_down_msgs(height).await
TopDownMsgs(height) ==
    /\ ret' = Call("top_down_msgs", height, top_down_msgs(cached_data, height))
    /\ UNCHANGED <<cached_data, last_committed_finality, rest>>

\* The syncer delivers null rounds and blocks whose side effects are in order.
IngestInOrder == \E h \in Heights : \E mp \in InOrderAt(h) : NewParentView(h, mp)

Verify == \E p \in Finalities : CheckProposal(p)

VerifySealed == \E sp \in SealedProposals : CheckSealedProposal(sp)

Seal == \E h \in Heights : SealedProposalAtHeight(h)

QueryChanges == \E h \in Heights : ValidatorChanges(h)

QueryMsgs == \E h \in Heights : TopDownMsgs(h)

\* A validator that votes on its peers' proposals.
VerifierNext ==
    \/ IngestInOrder
    \/ Commit
    \/ Verify
    \/ VerifySealed

VerifierSpec == ReadInit /\ [][VerifierNext]_vars

\* A validator that builds sealed proposals and executes their side effects.
SealerNext ==
    \/ IngestInOrder
    \/ Commit
    \/ Seal
    \/ QueryChanges
    \/ QueryMsgs

SealerSpec == ReadInit /\ [][SealerNext]_vars

\* ------------------------------------------------------ two providers

\* A parent chain that carries the side effects of the blocks 1 and 3 in the
\* other order: each block has the other's validator changes and messages.
SwappedBlock(h) ==
    IF h = 1
    THEN Payload(ParentBlock(1).block_hash, ParentBlock(3).validator_changes,
                 ParentBlock(3).top_down_msgs)
    ELSE IF h = 3
    THEN Payload(ParentBlock(3).block_hash, ParentBlock(1).validator_changes,
                 ParentBlock(1).top_down_msgs)
    ELSE ParentBlock(h)

\* The block the second provider's syncer reports at a height.
PeerBlock(chain, h) == IF chain = "swapped" THEN SwappedBlock(h) ELSE ParentBlock(h)

\* Two providers constructed apart with the same committed finality.  The
\* second one follows either the same parent chain or the swapped one.
ReplicaInit ==
    /\ cached_data = sequential
    /\ last_committed_finality \in {Some(f) : f \in Finalities}
    /\ config = [max_proposal_range |-> MaxProposalRange, proposal_delay |-> MaxProposalDelay]
    /\ ret = Call("new", <<>>, "ok")
    /\ peer \in { [cached_data |-> sequential,
                    last_committed_finality |-> last_committed_finality,
                    chain |-> c] : c \in {"same", "swapped"} }
    /\ tx = NoTransactions
    /\ events = NoEvents
    /\ serial = NoShadow
    /\ executed = NotFollowed

\* Both syncers report the same height: a null round, or the block of the
\* chain each of them follows.
BothNewParentView(height, filled) ==
    \E t \in {new_parent_view(cached_data, last_committed_finality, height,
                               IF filled THEN Some(ParentBlock(height)) ELSE None)} :
    \E u \in {new_parent_view(peer.cached_data, peer.last_committed_finality, height,
                               IF filled THEN Some(PeerBlock(peer.chain, height))
                               ELSE None)} :
        /\ cached_data' = t.cache
        /\ last_committed_finality' = t.lcf
        /\ peer' = [peer EXCEPT !.cached_data = u.cache, !.last_committed_finality = u.lcf]
        /\ ret' = Call("new_parent_view", <<height, filled>>, <<ErrorOf(t), ErrorOf(u)>>)
        /\ UNCHANGED <<config, tx, events, serial, executed>>

\* Both providers commit the same finality.
BothSetNewFinality(finality) ==
    \E t \in {set_new_finality(cached_data, last_committed_finality, finality)} :
    \E u \in {set_new_finality(peer.cached_data, peer.last_committed_finality, finality)} :
        /\ cached_data' = t.cache
        /\ last_committed_finality' = t.lcf
        /\ peer' = [peer EXCEPT !.cached_data = u.cache, !.last_committed_finality = u.lcf]
        /\ ret' = Call("set_new_finality", finality, <<ErrorOf(t), ErrorOf(u)>>)
        /\ UNCHANGED <<config, tx, events, serial, executed>>

\* Both providers seal a proposal for the same height.
BothSealedProposalAtHeight(target_height) ==
    /\ ret' = Call("sealed_proposal_at_height", target_height,
                   << sealed_proposal_at_height(cached_data, last_committed_finality,
                                                target_height),
                      sealed_proposal_at_height(peer.cached_data,
                                                peer.last_committed_finality,
                                                target_height) >>)
    /\ UNCHANGED <<cached_data, last_committed_finality, rest>>

BothIngest == \E h \in Heights : \E filled \in BOOLEAN : BothNewParentView(h, filled)

BothCommit == \E f \in Finalities : BothSetNewFinality(f)

BothSeal == \E h \in Heights : BothSealedProposalAtHeight(h)

ReplicaNext ==
    \/ BothIngest
    \/ BothCommit
    \/ BothSeal

ReplicaSpec == ReplicaInit /\ [][ReplicaNext]_vars

\* ------------------------------------------------- deferred execution

\* Nothing ingested and nothing executed yet.  parent is the view ingested at
\* each height since construction; cros_msgs and vali_chns are the side
\* effects of the sealed proposals committed so far, in the order of the
\* commits; commits counts them.
NothingExecuted ==
    [parent |-> <<>>, cros_msgs |-> <<>>, vali_chns |-> <<>>, commits |-> 0]

\* A seeded provider whose caller executes what it commits.
ExecutionInit ==
    /\ cached_data = sequential
    /\ last_committed_finality \in {Some(f) : f \in Finalities}
    /\ config = [max_proposal_range |-> MaxProposalRange, proposal_delay |-> MaxProposalDelay]
    /\ ret = Call("new", <<>>, "ok")
    /\ peer = NoPeer
    /\ tx = NoTransactions
    /\ events = NoEvents
    /\ serial = NoShadow
    /\ executed = NothingExecuted

\* The syncer's call; a view that is taken in is remembered.
ObserveParent(height, maybe_payload) ==
    \E t \in {new_parent_view(cached_data, last_committed_finality, height, maybe_payload)} :
        /\ cached_data' = t.cache
        /\ last_committed_finality' = t.lcf
        /\ ret' = Call("new_parent_view", <<height, maybe_payload>>, ErrorOf(t))
        /\ executed' =
               IF IsSome(t.err) THEN executed
               ELSE [executed EXCEPT !.parent =
                        [h \in DOMAIN @ \cup {height} |->
                            IF h = height THEN maybe_payload ELSE @[h]]]
        /\ UNCHANGED <<config, peer, tx, events, serial>>

\* The caller builds the sealed proposal for a height above the committed one
\* with sealed_proposal_at_height, commits it with set_new_sealed_finality in
\* the state it was built in, and executes the side effects it carries.
SealAndCommit(target_height) ==
    /\ target_height > Unwrap(last_committed_finality).height
    /\ \E r \in {sealed_proposal_at_height(cached_data, last_committed_finality,
                                            target_height)} :
          /\ r.kind = "some"
          /\ \E t \in {set_new_sealed_finality(cached_data, last_committed_finality,
                                                Unwrap(r.proposal))} :
                /\ cached_data' = t.cache
                /\ last_committed_finality' = t.lcf
                /\ ret' = Call("set_new_sealed_finality", Unwrap(r.proposal), ErrorOf(t))
                /\ executed' =
                       [executed EXCEPT
                           !.cros_msgs = @ \o Unwrap(r.proposal).cross_msgs,
                           !.vali_chns = @ \o Unwrap(r.proposal).validator_changes,
                           !.commits = @ + 1]
    /\ UNCHANGED <<config, peer, tx, events, serial>>

Observe == \E h \in Heights : \E mp \in InOrderAt(h) : ObserveParent(h, mp)

Execute == \E h \in Heights : SealAndCommit(h)

ExecutionNext ==
    \/ Observe
    \/ Execute

ExecutionSpec == ExecutionInit /\ [][ExecutionNext]_vars

\* ------------------------------------------------- concurrent transactions

\* The tasks of the node that call the provider, each from its own
\* atomically(..) or atomically_or_err(..): two parent syncers, consensus
\* committing finalities, and a task that asks for proposals.
Tasks == {"syncer", "second_syncer", "consensus", "proposer"}

TVars == {"cached_data", "last_committed_finality"}

\* The value a TVar holds.
Value(v) == IF v = "cached_data" THEN cached_data ELSE last_committed_finality

\* The TVars the body of an operation reads, in the order it first reads them.
\* next_proposal reads the cache and then, unless the cache is empty, the
\* finality; here it reads the finality in that case too.
reads(op) ==
    IF op = "new_parent_view" THEN <<"cached_data">>
    ELSE IF op = "set_new_finality" THEN <<"last_committed_finality", "cached_data">>
    ELSE <<"cached_data", "last_committed_finality">>

\* The commit publishes the finality and leaves the pruning to a later call.
writes_FinalityOnly(op) ==
    IF op = "new_parent_view" THEN {"cached_data"}
    ELSE IF op = "set_new_finality" THEN {"last_committed_finality"}
    ELSE {}

\* The TVars the body of an operation writes.
writes(op) ==
    IF op = "new_parent_view" THEN {"cached_data"}
    ELSE IF op = "set_new_finality" THEN {"cached_data", "last_committed_finality"}
    ELSE {}

\* The TVars an operation reads, as a set: the ones the runtime validates.
ReadSet(op) == {reads(op)[i] : i \in 1..Len(reads(op))}

\* What the body of an operation leaves when it runs on the given values.
Body(op, arg, cache, lcf) ==
    IF op = "new_parent_view" THEN new_parent_view(cache, lcf, arg[1], arg[2])
    ELSE IF op = "set_new_finality" THEN set_new_finality(cache, lcf, arg)
    ELSE Committed(cache, lcf)

\* A task outside any transaction.
Idle ==
    [op |-> "idle", arg |-> <<>>, pc |-> "idle", log |-> <<>>,
     stale |-> {}, retried |-> FALSE, res |-> "none"]

\* A transaction at its first instruction: an empty log, and no TVar written
\* since it began.  retried tells a syncer's transaction that has started again.
Begun(op, arg, retried) ==
    [op |-> op, arg |-> arg, pc |-> "run",
     log |-> <<>>, stale |-> {}, retried |-> retried, res |-> "none"]

\* emit!(ParentFinalityCommitted { block_height, block_hash }): one more copy
\* of the event at the subscriber.
emit(bag, event) ==
    IF event \in DOMAIN bag THEN [bag EXCEPT ![event] = @ + 1]
    ELSE [e \in DOMAIN bag \cup {event} |-> IF e = event THEN 1 ELSE bag[e]]

\* The next TVar the body reads, if its reads are not all logged.
NextRead(t) ==
    LET r == reads(tx[t].op)
        n == Cardinality(DOMAIN tx[t].log)
    IN  IF n < Len(r) THEN Some(r[n + 1]) ELSE None

\* Logged(t, v): the value the transaction has for a TVar.
Logged(t, v) == tx[t].log[v]

\* The outcome of the body of t on the values in its log.
Outcome(t) ==
    Body(tx[t].op, tx[t].arg,
         IF "cached_data" \in DOMAIN tx[t].log THEN Logged(t, "cached_data")
         ELSE sequential,
         IF "last_committed_finality" \in DOMAIN tx[t].log
         THEN Logged(t, "last_committed_finality") ELSE None)

\* One provider shared by the tasks, seeded, with a tracing subscriber.
StmInit ==
    /\ cached_data = sequential
    /\ last_committed_finality = Some(LiveSeed)
    /\ config = [max_proposal_range |-> MaxProposalRange, proposal_delay |-> MaxProposalDelay]
    /\ ret = Call("new", <<>>, "ok")
    /\ peer = NoPeer
    /\ tx = [t \in Tasks |-> Idle]
    /\ events = NoEvents
    /\ serial = [cache |-> sequential, lcf |-> Some(LiveSeed)]
    /\ executed = NotFollowed

\* A syncer calls new_parent_view for the height after latest_height(), which
\* it read before fetching the block from the parent.
StartSync(t) ==
    /\ t \in {"syncer", "second_syncer"}
    /\ tx[t].pc \in {"idle", "done"}
    /\ \E h \in {Unwrap(latest_height(cached_data, last_committed_finality)) + 1} :
          /\ h <= MaxSyncHeight
          /\ \E mp \in InOrderAt(h) :
                tx' = [tx EXCEPT ![t] = Begun("new_parent_view", <<h, mp>>, FALSE)]
    /\ UNCHANGED <<cached_data, last_committed_finality, config, ret, peer, events, serial,
                   executed>>

\* Consensus commits a finality that check_proposal accepted.
StartCommit(t) ==
    /\ t = "consensus"
    /\ tx[t].pc \in {"idle", "done"}
    /\ \E f \in Finalities :
          /\ check_proposal(cached_data, last_committed_finality, f)
          /\ tx' = [tx EXCEPT ![t] = Begun("set_new_finality", f, FALSE)]
    /\ UNCHANGED <<cached_data, last_committed_finality, config, ret, peer, events, serial,
                   executed>>

\* The proposer calls next_proposal.
StartPropose(t) ==
    /\ t = "proposer"
    /\ tx[t].pc \in {"idle", "done"}
    /\ tx' = [tx EXCEPT ![t] = Begun("next_proposal", <<>>, FALSE)]
    /\ UNCHANGED <<cached_data, last_committed_finality, config, ret, peer, events, serial,
                   executed>>

\* The transaction of t starts again after a conflict.
Restarted(t) == Begun(tx[t].op, tx[t].arg, t \in {"syncer", "second_syncer"})

\* The body reads a TVar for the first time.  A TVar written since the
\* transaction began fails the read and the transaction starts again.
Read(t) ==
    /\ tx[t].pc = "run"
    /\ IsSome(NextRead(t))
    /\ \E v \in {Unwrap(NextRead(t))} :
          tx' = [tx EXCEPT ![t] =
                    IF v \in tx[t].stale THEN Restarted(t)
                    ELSE [@ EXCEPT !.log = [x \in DOMAIN @ \cup {v} |->
                                               IF x = v THEN Value(v) ELSE @[x]]]]
    /\ UNCHANGED <<cached_data, last_committed_finality, config, ret, peer, events, serial,
                   executed>>

\* A transaction that has returned: a syncer keeps what it was called with and
\* what it got, the other tasks go on to something else.
Returned(t, res) ==
    IF t \in {"syncer", "second_syncer"}
    THEN [tx[t] EXCEPT !.pc = "done", !.res = res, !.log = <<>>, !.stale = {}]
    ELSE Idle

\* The body runs to its end on the logged values: an abort returns the error
\* to the caller, set_new_finality reaches its emit!, and the transaction is
\* left for the runtime to commit.
Run(t) ==
    /\ tx[t].pc = "run"
    /\ ~IsSome(NextRead(t))
    /\ IF IsSome(Outcome(t).err)
       THEN /\ tx' = [tx EXCEPT ![t] = Returned(t, ErrorOf(Outcome(t)))]
            /\ UNCHANGED events
       ELSE /\ tx' = [tx EXCEPT ![t].pc = "commit"]
            /\ events' = IF tx[t].op = "set_new_finality"
                         THEN emit(events, tx[t].arg) ELSE events
    /\ UNCHANGED <<cached_data, last_committed_finality, config, ret, peer, serial, executed>>

\* The runtime commits: if a TVar the transaction read has been written since
\* it began, it starts again; otherwise its writes are published together and
\* every transaction in progress that reads a written TVar sees it as changed.
TryCommit(t) ==
    /\ tx[t].pc = "commit"
    /\ IF tx[t].stale \cap DOMAIN tx[t].log # {}
       THEN /\ tx' = [tx EXCEPT ![t] = Restarted(t)]
            /\ UNCHANGED <<cached_data, last_committed_finality, serial>>
       ELSE \E out \in {Outcome(t)} :
            \E alone \in {Body(tx[t].op, tx[t].arg, serial.cache, serial.lcf)} :
            /\ cached_data' = IF "cached_data" \in writes(tx[t].op)
                              THEN out.cache ELSE cached_data
            /\ last_committed_finality' =
                   IF "last_committed_finality" \in writes(tx[t].op)
                   THEN out.lcf ELSE last_committed_finality
            /\ serial' = IF IsSome(alone.err) THEN serial
                         ELSE [cache |-> alone.cache, lcf |-> alone.lcf]
            /\ tx' = [u \in Tasks |->
                         IF u = t
                         THEN Returned(t, "ok")
                         ELSE IF tx[u].pc \in {"run", "commit"}
                         THEN [tx[u] EXCEPT !.stale =
                                  @ \cup (writes(tx[t].op) \cap ReadSet(tx[u].op))]
                         ELSE tx[u]]
    /\ UNCHANGED <<config, ret, peer, events, executed>>

StartSyncing == \E t \in Tasks : StartSync(t)

StartCommitting == \E t \in Tasks : StartCommit(t)

StartProposing == \E t \in Tasks : StartPropose(t)

ReadTVar == \E t \in Tasks : Read(t)

RunBody == \E t \in Tasks : Run(t)

CommitOrRetry == \E t \in Tasks : TryCommit(t)

StmNext ==
    \/ StartSyncing
    \/ StartCommitting
    \/ StartProposing
    \/ ReadTVar
    \/ RunBody
    \/ CommitOrRetry

StmSpec == StmInit /\ [][StmNext]_vars

\* ------------------------------------------------------------------ claims

\* What the last call returned, when it was next_proposal and returned Some.
Proposed == ret.op = "next_proposal" /\ ret.res.kind = "some"

Proposal == Unwrap(ret.res.proposal)

IsFilled(cache, h) == h \in DOMAIN cache /\ cache[h] # None

\* C1: whenever next_proposal() returns Some(p), the cache entry at p.height
\* exists and is filled, and p.block_hash is the hash stored in that entry.
C1_ProposalIsFilled ==
    Proposed =>
        /\ IsFilled(cached_data, Proposal.height)
        /\ Unwrap(cached_data[Proposal.height]).block_hash = Proposal.block_hash

\* A proposal was made although a null round sits above the proposed height.
C1_Witness ==
    /\ Proposed
    /\ \E h \in DOMAIN cached_data : h > Proposal.height /\ cached_data[h] = None
    /\ \E h \in DOMAIN cached_data : h < Proposal.height /\ cached_data[h] = None

\* C2: whenever next_proposal() returns Some with height h, lc < h <= lc + W
\* and h <= latest_height_in_cache - D.
C2_ProposalInWindow ==
    Proposed =>
        LET lc == Unwrap(last_committed_finality).height
            latest == Unwrap(latest_height_in_cache(cached_data))
        IN  /\ lc < Proposal.height
            /\ Proposal.height <= lc + max_proposal_range(config)
            /\ Proposal.height <= latest - proposal_delay(config)

\* C3: whenever next_proposal() returns Some(p), check_proposal(p) in the same
\* state is true.
C3_RoundTrip ==
    Proposed => check_proposal(cached_data, last_committed_finality, Proposal)

\* The last call was new_parent_view (primed: the call this step made).
Ingested == ret.op = "new_parent_view"

IngestedHeight == ret.arg[1]

IngestedPayload == ret.arg[2]

\* C5: a new_parent_view at the height following the cache's upper bound (any
\* height when the cache is empty, s+1 after the seed in particular), with a
\* null round or a block of sequential side effects, succeeds, and afterwards
\* latest_height_in_cache is the height just inserted.
C5_ConsecutiveAppendsSucceed ==
    [][ ( /\ Ingested'
          /\ IngestedPayload' \in InOrderAt(IngestedHeight')
          /\ \/ cached_data = sequential
             \/ IngestedHeight' = Unwrap(upper_bound(cached_data)) + 1 )
        => /\ ret'.res = "ok"
           /\ latest_height_in_cache(cached_data') = Some(IngestedHeight') ]_vars

\* Three consecutive views, null and filled, were taken in after the seed s,
\* starting at s+1.
C5_Witness ==
    /\ Ingested /\ ret.res = "ok"
    /\ IsSome(last_committed_finality)
    /\ lower_bound(cached_data) = Some(Unwrap(last_committed_finality).height + 1)
    /\ size(cached_data) >= 3
    /\ upper_bound(cached_data) = Some(IngestedHeight)
    /\ \E h \in DOMAIN cached_data : cached_data[h] = None
    /\ \E h \in DOMAIN cached_data : cached_data[h] # None

\* C6: on a non-empty cache, new_parent_view(h, payload) with h # upper_bound + 1
\* fails with NonSequentialParentViewInsert and leaves the cache and the last
\* committed finality as they were.
C6_NonSequentialRefused ==
    [][ ( /\ Ingested'
          /\ cached_data # sequential
          /\ IngestedHeight' # Unwrap(upper_bound(cached_data)) + 1 )
        => /\ ret'.res = "NonSequentialParentViewInsert"
           /\ cached_data' = cached_data
           /\ last_committed_finality' = last_committed_finality ]_vars

\* A well-formed block was refused for its height alone.
C6_Witness ==
    /\ Ingested /\ ret.res = "NonSequentialParentViewInsert"
    /\ IngestedPayload = Some(ParentBlock(IngestedHeight))
    /\ cached_data # sequential
    /\ IngestedHeight # Unwrap(upper_bound(cached_data)) + 1
    /\ IngestedHeight \notin DOMAIN cached_data

\* C7: after set_new_finality(f, prev), last_committed_finality = Some(f) and
\* the cache has no key below f.height.
C7_CommitInstallsAndPrunes ==
    ret.op = "set_new_finality" =>
        /\ last_committed_finality = Some(ret.arg)
        /\ \A k \in DOMAIN cached_data : k >= ret.arg.height

\* A commit inside the cache range: the committed height is now the lowest key
\* and later heights are still cached.
C7_Witness ==
    /\ ret.op = "set_new_finality"
    /\ lower_bound(cached_data) = Some(ret.arg.height)
    /\ size(cached_data) >= 2

\* C8: every set_new_finality / set_new_sealed_finality installs a finality
\* strictly higher than the previously committed one, when there was one.
C8_MonotoneCommit ==
    [][ ( /\ ret'.op \in {"set_new_finality", "set_new_sealed_finality"}
          /\ IsSome(last_committed_finality) )
        => Unwrap(last_committed_finality').height
               > Unwrap(last_committed_finality).height ]_vars

\* C9: the cache is empty or its keys are a contiguous range [lo, hi].
C9_CacheContiguous ==
    \/ cached_data = sequential
    \/ DOMAIN cached_data
           = Unwrap(lower_bound(cached_data))..Unwrap(upper_bound(cached_data))

\* A cache of several keys that has been pruned by a commit and appended to.
C9_Witness ==
    /\ size(cached_data) >= 3
    /\ IsSome(last_committed_finality)
    /\ lower_bound(cached_data) = Some(Unwrap(last_committed_finality).height)
    /\ Ingested /\ ret.res = "ok"

\* C10: with max_cache_blocks = M the cache never holds more than M entries.
C10_CacheBounded == size(cached_data) <= MaxCacheBlocks

\* C10 as amended: new_parent_view is refused only for sequentiality, never for
\* the size of the cache; every in-order call adds one entry whatever the size.
C10_OnlySequentialityRefuses ==
    [][ Ingested' =>
          IF ret'.res = "ok"
          THEN size(cached_data') = size(cached_data) + 1
          ELSE /\ ret'.res = "NonSequentialParentViewInsert"
               /\ \/ /\ cached_data # sequential
                     /\ IngestedHeight' # Unwrap(upper_bound(cached_data)) + 1
                  \/ IngestedPayload' \notin InOrderAt(IngestedHeight') ]_vars

\* An append was accepted into a cache that already held M entries.
C10_Witness ==
    /\ Ingested /\ ret.res = "ok"
    /\ size(cached_data) > MaxCacheBlocks

CommittedHeight == Unwrap(last_committed_finality).height

\* The cache has reached lc + W: the heights next_proposal looks at are all
\* observed, and later appends do not change its answer before a commit.
WindowObserved(lc) ==
    /\ CommittedHeight = lc
    /\ IsSome(upper_bound(cached_data))
    /\ Unwrap(upper_bound(cached_data)) >= lc + max_proposal_range(config)

\* C4: whatever the null rounds, W and D, once the syncer has delivered the
\* window above lc a proposal is eventually returned and committed (the last
\* committed height increases).  candidate_height is min(lc + W, latest), so
\* from a state where WindowObserved holds the answer of next_proposal depends
\* on cached heights that no longer change: a run that stays at lc from there
\* on stays there however many heights, filled or not, the syncer appends.
C4_ProposerIsLive ==
    \A lc \in Heights : [](WindowObserved(lc) => <>(CommittedHeight > lc))

\* The window (lc, lc + W] holds a filled height h and a filled height h2 at
\* least D above it, both cached.
RoomInWindow(lc) ==
    /\ CommittedHeight = lc
    /\ \E h, h2 \in DOMAIN cached_data :
         /\ IsFilled(cached_data, h) /\ IsFilled(cached_data, h2)
         /\ lc < h
         /\ h + proposal_delay(config) <= h2
         /\ h2 <= lc + max_proposal_range(config)

\* C4 as amended: when the window above lc holds a filled height and a filled
\* height at least D above it, a proposal is eventually returned and committed.
C4_LiveWithRoomInWindow ==
    \A lc \in Heights : [](RoomInWindow(lc) => <>(CommittedHeight > lc))

\* A proposal was committed after null rounds in the window, with room left.
C4_Witness ==
    /\ ret.op = "set_new_finality"
    /\ CommittedHeight > LiveSeed.height
    /\ cached_data[CommittedHeight] # None
    /\ \E h \in DOMAIN cached_data : cached_data[h] = None
    /\ proposal_delay(config) > 0

\* ------------------------------------------------- claims on the verifier

Checked == ret.op = "check_proposal"

\* C11: check_proposal(p) returns true if and only if the last committed
\* finality exists, p.height is above its height, the cache upper bound is at
\* least p.height, and the cache entry at p.height is filled with the hash
\* p.block_hash; otherwise false.
C11_CheckProposalIff ==
    Checked =>
        ( ret.res <=>
            /\ IsSome(last_committed_finality)
            /\ ret.arg.height > Unwrap(last_committed_finality).height
            /\ IsSome(upper_bound(cached_data))
            /\ Unwrap(upper_bound(cached_data)) >= ret.arg.height
            /\ IsFilled(cached_data, ret.arg.height)
            /\ Unwrap(cached_data[ret.arg.height]).block_hash = ret.arg.block_hash )

\* A proposal is accepted although this provider would propose another height.
C11_Witness ==
    /\ Checked /\ ret.res
    /\ \E r \in {next_proposal(cached_data, last_committed_finality, config, TRUE)} :
          /\ r.kind = "some"
          /\ Unwrap(r.proposal).height # ret.arg.height

CheckedSealed == ret.op = "check_sealed_proposal"

\* C12: check_sealed_proposal(p) returns true if and only if
\* check_proposal(p.finality()) is true and p.commitment() equals the
\* commitment of sealed_proposal_at_height(p.height); a sealed proposal whose
\* block hash differs from the cached hash at its height is rejected.
C12_SealedCheckIff ==
    CheckedSealed =>
        ( (ret.res.kind = "ok" /\ ret.res.val) <=>
            /\ check_proposal(cached_data, last_committed_finality, finality_of(ret.arg))
            /\ \E r \in {sealed_proposal_at_height(cached_data, last_committed_finality,
                                                    ret.arg.height)} :
                  /\ r.kind = "some"
                  /\ commitment(ret.arg) = commitment(Unwrap(r.proposal)) )

\* The proposal cannot be verified: no committed finality, an empty cache, a
\* height not above the committed one or beyond the cache, or a height that
\* is a null round or is not cached.
Unverifiable(h) ==
    \/ ~IsSome(last_committed_finality)
    \/ cached_data = sequential
    \/ h <= Unwrap(last_committed_finality).height
    \/ h > Unwrap(upper_bound(cached_data))
    \/ ~IsFilled(cached_data, h)

\* C13: check_proposal and check_sealed_proposal never panic, and return false
\* for a proposal that cannot be verified; whenever check_height passes, the
\* unwraps of check_sealed_proposal and proposal_sealed_till_height succeed.
C13_ChecksNeverFail ==
    /\ Checked => (ret.res \in BOOLEAN /\ (Unverifiable(ret.arg.height) => ~ret.res))
    /\ CheckedSealed =>
          /\ ret.res.kind = "ok"
          /\ Unverifiable(ret.arg.height) => ~ret.res.val

\* -------------------------------------------------- claims on the sealer

Sealed == ret.op = "sealed_proposal_at_height"

\* The side effects of the filled cache entries at lo..hi-1, ascending.
RECURSIVE MsgsOfFilled(_, _, _)
MsgsOfFilled(cache, lo, hi) ==
    IF lo >= hi THEN <<>>
    ELSE MsgsOfFilled(cache, lo, hi - 1)
             \o (IF IsFilled(cache, hi - 1) THEN Unwrap(cache[hi - 1]).top_down_msgs
                 ELSE <<>>)

RECURSIVE ChangesOfFilled(_, _, _)
ChangesOfFilled(cache, lo, hi) ==
    IF lo >= hi THEN <<>>
    ELSE ChangesOfFilled(cache, lo, hi - 1)
             \o (IF IsFilled(cache, hi - 1) THEN Unwrap(cache[hi - 1]).validator_changes
                 ELSE <<>>)

\* C14: sealed_proposal_at_height(h) returns none when cache[h] is missing or
\* null; otherwise it returns a proposal with height h, the cached hash at h,
\* and the cross-messages and validator changes of the filled cache entries in
\* [lc, h), concatenated in ascending order of height.
C14_SealedProposalContent ==
    Sealed =>
        IF ~IsFilled(cached_data, ret.arg) THEN ret.res.kind = "none"
        ELSE /\ ret.res.kind = "some"
             /\ Unwrap(ret.res.proposal) =
                    SealedTopdownProposal(
                        ret.arg,
                        Unwrap(cached_data[ret.arg]).block_hash,
                        MsgsOfFilled(cached_data,
                                     Unwrap(last_committed_finality).height, ret.arg),
                        ChangesOfFilled(cached_data,
                                        Unwrap(last_committed_finality).height, ret.arg))

\* C16: once the cache upper bound is at least lc + W, a further append does
\* not change what next_proposal() returns, in either build.
C16_ConvergedAfterWindow ==
    [][ ( /\ Ingested' /\ ret'.res = "ok"
          /\ IsSome(last_committed_finality)
          /\ IsSome(upper_bound(cached_data))
          /\ Unwrap(upper_bound(cached_data))
                 >= Unwrap(last_committed_finality).height + max_proposal_range(config) )
        => \A overflow_checks \in BOOLEAN :
               next_proposal(cached_data', last_committed_finality', config, overflow_checks)
                   = next_proposal(cached_data, last_committed_finality, config,
                                   overflow_checks) ]_vars

\* C17: validator_changes(h) and top_down_msgs(h) return Some of the cached
\* sequence when cache[h] is filled, Some of the empty sequence when it is a
\* null round, and None when h is not in the cache.
C17_ThreeWayQueries ==
    /\ ret.op = "validator_changes" =>
          ret.res = IF IsFilled(cached_data, ret.arg)
                    THEN Some(Unwrap(cached_data[ret.arg]).validator_changes)
                    ELSE IF ret.arg \in DOMAIN cached_data THEN Some(<<>>) ELSE None
    /\ ret.op = "top_down_msgs" =>
          ret.res = IF IsFilled(cached_data, ret.arg)
                    THEN Some(Unwrap(cached_data[ret.arg]).top_down_msgs)
                    ELSE IF ret.arg \in DOMAIN cached_data THEN Some(<<>>) ELSE None

\* A null round answers with an empty sequence while the cache holds a block
\* with validator changes and a lower height has been pruned by a commit.
C17_Witness ==
    /\ ret.op = "validator_changes"
    /\ ret.arg \in DOMAIN cached_data /\ cached_data[ret.arg] = None
    /\ ret.res = Some(<<>>)
    /\ \E h \in DOMAIN cached_data :
          IsFilled(cached_data, h) /\ Unwrap(cached_data[h]).validator_changes # <<>>
    /\ IsSome(last_committed_finality)
    /\ lower_bound(cached_data) = Some(Unwrap(last_committed_finality).height)
    /\ Unwrap(last_committed_finality).height > 0

\* ------------------------------------------------ claims on two providers

SealedByBoth == ret.op = "sealed_proposal_at_height"

\* The blocks 1 and 3 are cached by the first provider and lie in [lc, h).
BothBlocksSealed(h) ==
    /\ IsFilled(cached_data, 1) /\ IsFilled(cached_data, 3)
    /\ Unwrap(last_committed_finality).height <= 1
    /\ 3 < h

C18_EventAfterCommit ==
    \A e \in DOMAIN events :
        /\ Unwrap(last_committed_finality).height >= e.height
        /\ events[e] <= 1

\* The two syncers have returned from new_parent_view for the same height.
BothReturned ==
    /\ tx["syncer"].pc = "done" /\ tx["second_syncer"].pc = "done"
    /\ tx["syncer"].arg[1] = tx["second_syncer"].arg[1]

\* C19: of two concurrent new_parent_view transactions for the same next
\* height, exactly one commits and the other, having started again on the
\* updated cache, fails with NonSequentialParentViewInsert; the cache holds the
\* winner's view at that height, and its keys never have a gap.
C19_OneAppendWins ==
    /\ BothReturned =>
          \E w, l \in {"syncer", "second_syncer"} :
              /\ w # l
              /\ tx[w].res = "ok"
              /\ tx[l].res = "NonSequentialParentViewInsert"
              /\ tx[l].retried
              /\ tx[w].arg[1] \in DOMAIN cached_data =>
                    cached_data[tx[w].arg[1]] = tx[w].arg[2]
    /\ \A h \in DOMAIN cached_data :
          h = Unwrap(lower_bound(cached_data)) \/ h - 1 \in DOMAIN cached_data

\* A null round and a block raced for the same height after an earlier append.
C19_Witness ==
    /\ BothReturned
    /\ tx["syncer"].arg[2] # tx["second_syncer"].arg[2]
    /\ tx["syncer"].res = "ok"
    /\ tx["second_syncer"].retried
    /\ size(cached_data) >= 2

\* The two values were held together by the two TVars: the cache is pruned
\* to the finality's height and no further.
Together(cache, lcf) ==
    /\ IsSome(lcf)
    /\ \/ cache = sequential
       \/ Unwrap(lower_bound(cache)) \in {Unwrap(lcf).height, Unwrap(lcf).height + 1}

\* C20: a commit is atomic over both TVars.  Whatever the interleaving, a
\* transaction that has read both holds values the two had together (never a
\* cache pruned for a finality it does not see, nor a finality with keys below
\* it still cached), a value it read of a TVar nobody wrote since is the value
\* the TVar has, and the TVars are what the committed transactions leave when
\* run one after the other in the order of their commits.
C20_AtomicCommit ==
    /\ \A t \in Tasks :
          /\ TVars \subseteq DOMAIN tx[t].log =>
                Together(Logged(t, "cached_data"), Logged(t, "last_committed_finality"))
          /\ \A v \in DOMAIN tx[t].log :
                v \notin tx[t].stale => Logged(t, v) = Value(v)
    /\ Together(cached_data, last_committed_finality)
    /\ cached_data = serial.cache
    /\ last_committed_finality = serial.lcf

\* The proposer has read both TVars after a commit that pruned the cache,
\* while a syncer's append waits to be committed.
C20_Witness ==
    /\ TVars \subseteq DOMAIN tx["proposer"].log
    /\ Unwrap(Logged("proposer", "last_committed_finality")).height > LiveSeed.height + 1
    /\ Logged("proposer", "cached_data") # sequential
    /\ tx["syncer"].pc = "commit"
    /\ tx["proposer"].stale = {}

\* ------------------------------------------------- claims on the ingestor

\* The side effects of a payload are in order: nonces and configuration
\* numbers each go up by one.
SideEffectsInOrder(payload) ==
    /\ ensure_sequential(payload.top_down_msgs)
    /\ ensure_sequential(payload.validator_changes)

\* C21: new_parent_view with a block whose cross-messages are not sequential
\* by nonce, or whose validator changes are not sequential by configuration
\* number, fails with the sequentiality error and leaves the cache and the
\* finality as they were; every filled entry of the cache has its side effects
\* in order; and a null round is appended without these checks, refused only
\* for its height.
C21_SideEffectsInOrder ==
    /\ [](\A h \in DOMAIN cached_data :
             IsFilled(cached_data, h) => SideEffectsInOrder(Unwrap(cached_data[h])))
    /\ [][ /\ ( /\ Ingested'
                /\ IsSome(IngestedPayload')
                /\ ~SideEffectsInOrder(Unwrap(IngestedPayload')) )
              => /\ ret'.res = "NonSequentialParentViewInsert"
                 /\ cached_data' = cached_data
                 /\ last_committed_finality' = last_committed_finality
          /\ ( /\ Ingested'
                /\ IngestedPayload' = None
                /\ \/ cached_data = sequential
                   \/ IngestedHeight' = Unwrap(upper_bound(cached_data)) + 1 )
              => ret'.res = "ok" ]_vars

\* A block with its messages out of order was refused at the height the cache
\* expected next, above a block and a null round it holds.
C21_Witness ==
    /\ Ingested /\ ret.res = "NonSequentialParentViewInsert"
    /\ IngestedPayload = Some(UnorderedMsgsBlock(IngestedHeight))
    /\ cached_data # sequential
    /\ IngestedHeight = Unwrap(upper_bound(cached_data)) + 1
    /\ \E h \in DOMAIN cached_data : IsFilled(cached_data, h)
    /\ \E h \in DOMAIN cached_data : cached_data[h] = None

\* ------------------------------------------------- claims on the proposer

\* The greatest filled height of the cache in lo..hi, if there is one.
GreatestFilled(cache, lo, hi) ==
    LET filled == {h \in DOMAIN cache : lo <= h /\ h <= hi /\ cache[h] # None}
    IN  IF filled = {} THEN None ELSE Some(Max(filled))

\* The reference algorithm, over the integers: candidate = min(lc + W, upper
\* bound), nn1 the greatest filled height in [lower bound, candidate], nn2 the
\* greatest filled height in [lower bound, nn1 - D]; none if the cache is
\* empty, nn1 or nn2 does not exist, or nn2 = lc; otherwise nn2 and its hash.
ReferenceProposal(cache, lcf, cfg) ==
    IF cache = sequential THEN [kind |-> "none", proposal |-> None]
    ELSE
    LET lc == Unwrap(lcf).height
        lo == Unwrap(lower_bound(cache))
        candidate == Min({lc + max_proposal_range(cfg), Unwrap(upper_bound(cache))})
        nn1 == GreatestFilled(cache, lo, candidate)
        nn2 == IF IsSome(nn1)
               THEN GreatestFilled(cache, lo, Unwrap(nn1) - proposal_delay(cfg))
               ELSE None
    IN  IF ~IsSome(nn1) \/ ~IsSome(nn2) THEN [kind |-> "none", proposal |-> None]
        ELSE IF Unwrap(nn2) = lc THEN [kind |-> "none", proposal |-> None]
        ELSE [kind |-> "some",
              proposal |-> Some(Finality(Unwrap(nn2),
                                         Unwrap(cache[Unwrap(nn2)]).block_hash))]

\* C22: on a seeded provider next_proposal() returns what the reference
\* algorithm gives for the cache, the last committed height, W and D.
C22_ReferenceAlgorithm ==
    (ret.op = "next_proposal" /\ IsSome(last_committed_finality)) =>
        ret.res = ReferenceProposal(cached_data, last_committed_finality, config)

\* ------------------------------------------------ claims on the committer

\* C23: set_new_finality(f, prev) with f.height inside the cache range leaves
\* every cache entry with a key at or above f.height, the one at f.height
\* included, and the upper bound as they were, so that a new_parent_view at the
\* previous upper bound + 1 succeeds right after the commit.
C23_DelayedPruningFrame ==
    [][ ( /\ ret'.op = "set_new_finality"
          /\ cached_data # sequential
          /\ Unwrap(lower_bound(cached_data)) <= ret'.arg.height
          /\ ret'.arg.height <= Unwrap(upper_bound(cached_data)) )
        => /\ \A k \in DOMAIN cached_data :
                 k >= ret'.arg.height =>
                     k \in DOMAIN cached_data' /\ cached_data'[k] = cached_data[k]
           /\ upper_bound(cached_data') = upper_bound(cached_data)
           /\ \A mp \in InOrderAt(Unwrap(upper_bound(cached_data)) + 1) :
                 new_parent_view(cached_data', last_committed_finality',
                                 Unwrap(upper_bound(cached_data)) + 1, mp).err = None ]_vars

\* A commit at a filled height in the middle of the cache: the entry at the
\* committed height is the lowest one left, under a null round and a block.
C23_Witness ==
    /\ ret.op = "set_new_finality"
    /\ lower_bound(cached_data) = Some(ret.arg.height)
    /\ ret.arg.height > 0
    /\ IsFilled(cached_data, ret.arg.height)
    /\ Unwrap(cached_data[ret.arg.height]).block_hash = ret.arg.block_hash
    /\ size(cached_data) >= 3
    /\ \E h \in DOMAIN cached_data : cached_data[h] = None

\* --------------------------------------------- claims on deferred execution

\* The lowest height the syncer has delivered.
FirstCached == Min(DOMAIN executed.parent)

\* C24: after sealed commits at increasing heights, each built by
\* sealed_proposal_at_height just before its commit, the side effects of the
\* committed sealed proposals, concatenated, are those of every filled height
\* ingested from the first cached height up to, not including, the last
\* committed one, in ascending order, none omitted and none twice; and the
\* entry at the committed height is still cached for the next proposal.
C24_ExecutedOnce ==
    (executed # NotFollowed /\ executed.commits > 0) =>
        /\ executed.cros_msgs = MsgsOfFilled(executed.parent, FirstCached, CommittedHeight)
        /\ executed.vali_chns = ChangesOfFilled(executed.parent, FirstCached, CommittedHeight)
        /\ CommittedHeight \in DOMAIN cached_data

\* ------------------------------------------------------ claims on reset

\* next_proposal() returns none, whatever the build.
NoProposal(cache, lcf) ==
    \A overflow_checks \in BOOLEAN :
        next_proposal(cache, lcf, config, overflow_checks).kind = "none"

\* C25: reset(f), from any state, leaves the cache empty and
\* last_committed_finality = Some(f), both written by the one transaction;
\* afterwards latest_height() is f.height, and next_proposal() returns none
\* until a new observation is ingested: from an empty cache, every call but a
\* successful new_parent_view leaves the cache empty and no proposal.
C25_ResetClears ==
    /\ [](ret.op = "reset" =>
             /\ cached_data = sequential
             /\ last_committed_finality = Some(ret.arg)
             /\ latest_height(cached_data, last_committed_finality) = Some(ret.arg.height)
             /\ NoProposal(cached_data, last_committed_finality))
    /\ [][ ( /\ cached_data = sequential
             /\ ~(Ingested' /\ ret'.res = "ok") )
           => /\ cached_data' = sequential
              /\ NoProposal(cached_data', last_committed_finality') ]_vars

\* A reset has forced a finality above the lowest height: the cache is empty
\* and latest_height() answers with the finality's height.
C25_Witness ==
    /\ ret.op = "reset"
    /\ cached_data = sequential
    /\ ret.arg.height > 0
    /\ latest_height(cached_data, last_committed_finality) = Some(ret.arg.height)

\* ------------------------------------------------ claims on idempotence

\* C26: set_new_finality(f, .) applied a second time in the state the first
\* application produced leaves the cache and last_committed_finality as the
\* first application left them.
C26_CommitIdempotent ==
    [][ /\ ret'.op = "set_new_finality" =>
              \E again \in {set_new_finality(cached_data', last_committed_finality',
                                             ret'.arg)} :
                  /\ again.err = None
                  /\ again.cache = cached_data'
                  /\ again.lcf = last_committed_finality'
        /\ ( /\ ret.op = "set_new_finality"
             /\ ret'.op = "set_new_finality"
             /\ ret'.arg = ret.arg )
           => /\ cached_data' = cached_data
              /\ last_committed_finality' = last_committed_finality ]_vars

\* A commit above the previous finality that pruned the cache to the committed
\* height and left later heights cached: the state a second application meets.
C26_Witness ==
    /\ ret.op = "set_new_finality"
    /\ last_committed_finality = Some(ret.arg)
    /\ lower_bound(cached_data) = Some(ret.arg.height)
    /\ ret.arg.height >= 2
    /\ Unwrap(upper_bound(cached_data)) > ret.arg.height
    /\ set_new_finality(cached_data, last_committed_finality, ret.arg)
           = Committed(cached_data, last_committed_finality)

\* ------------------------------------------------- claims on the seeding

\* C27: whenever the cache holds an entry, last_committed_finality is Some, so
\* that next_proposal() never reaches the unreachable!() of
\* propose_next_height, also on a provider constructed without a committed
\* finality that has ingested observations.
C27_SeededWhenCached ==
    /\ cached_data # sequential => IsSome(last_committed_finality)
    /\ (ret.op = "next_proposal" /\ ~IsSome(last_committed_finality)) =>
           ret.res.kind # "panic"

\* ---------------------------------------------- claims on the arithmetic

\* C28: in propose_next_height neither last_committed_height +
\* max_proposal_range leaves the u64 range nor first_non_null_height -
\* proposal_delay goes below zero: the greatest filled height in the window is
\* at least D whenever there is one.
C28_NoWrap ==
    ( /\ ret.op = "next_proposal"
      /\ IsSome(last_committed_finality)
      /\ cached_data # sequential ) =>
        LET max_proposal_height == CommittedHeight + max_proposal_range(config)
            latest == Unwrap(latest_height_in_cache(cached_data))
            candidate_height ==
                IF max_proposal_height < latest THEN max_proposal_height ELSE latest
            first_non_null == first_non_null_block(cached_data, candidate_height)
        IN  /\ max_proposal_height < U64Modulus
            /\ IsSome(first_non_null) =>
                  ~u64_sub(Unwrap(first_non_null), proposal_delay(config), TRUE).panic

\* ------------------------------------------- claims on the sealed heights

\* C29: sealed_proposal_at_height(h) returns Some only for a height above the
\* last committed one; for h at or below it, the committed height itself
\* included, it returns none.
C29_SealedOnlyAboveCommitted ==
    (Sealed /\ IsSome(last_committed_finality) /\ ret.arg <= CommittedHeight) =>
        ret.res.kind = "none"

====
